---- MODULE Spec2Model ----
(***************************************************************************)
(* State-machine model of the order workflow client of zishBE-FE:          *)
(*   - the checkout form  (src/components/order-modal.tsx, OrderModal),    *)
(*     in its two definitions: the one that shows OrderSuccessPopup        *)
(*     (lines 1-447) and the second one that closes directly (448-836);    *)
(*   - the success confirmation (src/components/order-success-popup.tsx,   *)
(*     OrderSuccessPopup);                                                 *)
(*   - the order management view (same file, OrderManagement).             *)
(* JavaScript strings are modelled as tuples of one-character strings.     *)
(* One React event handler (or one promise continuation) with the state    *)
(* updates it batches and the effects it triggers is one action.           *)
(***************************************************************************)
EXTENDS Integers, Sequences, FiniteSets, Bags, TLC

\* ------------------------------------------------------------------ bounds
\* placeOrder calls issued in one behaviour
MaxOrders == 2
\* line items the container puts in the cart
MaxCart == 1
\* user actions in the order management view in one behaviour
MaxClicks == 2
\* the largest totalPages the backend reports
MaxPages == 2
\* digits typed into the phone field (the validator's limits are 10 and 15)
MaxPhoneDigits == 17
\* non-digit characters typed into the phone field
MaxPhoneSeparators == 2
\* calls of login in one behaviour
MaxLogins == 2
\* calls of logout in one behaviour
MaxLogouts == 2
\* requests sent in one behaviour
MaxRequests == 4

\* ------------------------------------------------------------ string model
\* null where the other values are strings (the error states)
null == "null"
\* undefined where the other values are tuples of characters
undefined == <<"undefined">>
\* popupData is the empty tuple for null, else the 1-tuple holding {id, totalAmount}
nullData == <<>>

EmptyStr == <<>>

IsSpace(c) == c = " "

IsDigit(c) == c \in {"0", "1", "2", "3", "4", "5", "6", "7", "8", "9"}

RECURSIVE trimStart(_)
trimStart(s) ==
    IF s = <<>> THEN <<>>
    ELSE IF IsSpace(Head(s)) THEN trimStart(Tail(s)) ELSE s

RECURSIVE trimEnd(_)
trimEnd(s) ==
    IF s = <<>> THEN <<>>
    ELSE IF IsSpace(s[Len(s)]) THEN trimEnd(SubSeq(s, 1, Len(s) - 1)) ELSE s

\* String.prototype.trim
trim(s) == trimEnd(trimStart(s))

\* phone.replace(/\D/g, '')
cleanPhone(phone) == SelectSeq(phone, IsDigit)

\* one character of the class [^\s@]
NotSpaceNorAt(c) == ~IsSpace(c) /\ c # "@"

AllNotSpaceNorAt(s, from, to) ==
    /\ from <= to
    /\ \A k \in from..to : NotSpaceNorAt(s[k])

\* /^[^\s@]+@[^\s@]+\.[^\s@]+$/.test(email)
emailRegexTest(email) ==
    \E i \in 1..Len(email) : \E j \in 1..Len(email) :
        /\ i < j
        /\ email[i] = "@"
        /\ email[j] = "."
        /\ AllNotSpaceNorAt(email, 1, i - 1)
        /\ AllNotSpaceNorAt(email, i + 1, j - 1)
        /\ AllNotSpaceNorAt(email, j + 1, Len(email))

ErrEmail == "Please enter a valid email address"
ErrPhoneShort == "Phone number must be at least 10 digits"
ErrPhoneLong == "Phone number cannot exceed 15 digits"
ErrNameRequired == "Customer name is required"
ErrNameShort == "Name must be at least 2 characters"

validateEmail(email) ==
    IF trim(email) = <<>> THEN null
    ELSE IF ~emailRegexTest(email) THEN ErrEmail
    ELSE null

\* validatePhoneNumber testing the length of the input, not of its digits
validatePhoneNumber_countsLength(phone) ==
    IF trim(phone) = <<>> THEN null
    ELSE IF Len(phone) < 10 THEN ErrPhoneShort
    ELSE IF Len(phone) > 15 THEN ErrPhoneLong
    ELSE null

validatePhoneNumber(phone) ==
    IF trim(phone) = <<>> THEN null
    ELSE IF Len(cleanPhone(phone)) < 10 THEN ErrPhoneShort
    ELSE IF Len(cleanPhone(phone)) > 15 THEN ErrPhoneLong
    ELSE null

\* the name check of handleNameChange (the value it passes to setNameError)
nameErrorOf(value) ==
    IF trim(value) = <<>> THEN ErrNameRequired
    ELSE IF Len(trim(value)) < 2 THEN ErrNameShort
    ELSE null

\* Number.prototype.toString for a natural number
RECURSIVE toString(_)
toString(n) ==
    IF n < 10 THEN <<CHOOSE d \in {"0", "1", "2", "3", "4", "5", "6", "7", "8", "9"} :
                        d = (<<"0", "1", "2", "3", "4", "5", "6", "7", "8", "9">>)[n + 1]>>
    ELSE toString(n \div 10) \o toString(n % 10)

DigitValue(c) ==
    CHOOSE v \in 0..9 : (<<"0", "1", "2", "3", "4", "5", "6", "7", "8", "9">>)[v + 1] = c

\* parseInt of a string of decimal digits
RECURSIVE parseInt(_)
parseInt(s) ==
    IF Len(s) = 1 THEN DigitValue(s[1])
    ELSE 10 * parseInt(SubSeq(s, 1, Len(s) - 1)) + DigitValue(s[Len(s)])

\* a || b on strings: the empty string is falsy
OrElse(a, b) == IF a = <<>> \/ a = undefined THEN b ELSE a

NotProvided == <<"N", "o", "t", " ", "p", "r", "o", "v", "i", "d", "e", "d">>

\* ------------------------------------------------- API clients (src/lib)
\* An HTTP exchange as a client sees it: status 0 stands for fetch() rejecting
\* (no response), otherwise the status of the response and the envelope
\* {success, message} of its JSON body.
HttpStatuses == {0, 200, 500}

\* the message of the TypeError fetch() rejects with when no response arrives
MsgFailedToFetch ==
    <<"F", "a", "i", "l", "e", "d", " ", "t", "o", " ", "f", "e", "t", "c", "h">>

\* messages a backend envelope can carry
MsgKitchenClosed ==
    <<"K", "i", "t", "c", "h", "e", "n", " ", "i", "s", " ", "c", "l", "o", "s", "e", "d">>

MsgItemNotAvailable ==
    <<"I", "t", "e", "m", " ", "7", " ", "i", "s", " ", "n", "o", "t", " ", "a", "v", "a", "i",
      "l", "a", "b", "l", "e">>

\* `HTTP error! status: ${response.status}`, before the status
MsgHttpErrorStatus ==
    <<"H", "T", "T", "P", " ", "e", "r", "r", "o", "r", "!", " ", "s", "t", "a", "t", "u", "s",
      ":", " ">>

\* what placeOrder throws when checkItemsAvailability threw
MsgItemsNotAvailable ==
    <<"S", "o", "m", "e", " ", "m", "e", "n", "u", " ", "i", "t", "e", "m", "s", " ", "a", "r",
      "e", " ", "n", "o", "t", " ", "a", "v", "a", "i", "l", "a", "b", "l", "e", ".", " ", "P",
      "l", "e", "a", "s", "e", " ", "r", "e", "f", "r", "e", "s", "h", " ", "y", "o", "u", "r",
      " ", "c", "a", "r", "t", " ", "a", "n", "d", " ", "t", "r", "y", " ", "a", "g", "a", "i",
      "n", ".">>

ReplyMessages == {undefined, MsgKitchenClosed, MsgItemNotAvailable}

HttpReplies == [status : HttpStatuses, success : BOOLEAN, message : ReplyMessages]

\* response.ok
ok(reply) == reply.status \in 200..299

\* how a call ends: it returns, or it throws an Error with a message
Returned == [returns |-> TRUE, error |-> <<>>]

Thrown(message) == [returns |-> FALSE, error |-> message]

\* src/lib/order-api.ts
checkItemsAvailability(getReply, postReply) ==
    IF getReply.status = 0 \/ postReply.status = 0 THEN Thrown(MsgFailedToFetch)
    ELSE IF ~ok(postReply)
         THEN Thrown(OrElse(postReply.message,
                <<"F", "a", "i", "l", "e", "d", " ", "t", "o", " ", "c", "h", "e", "c", "k",
                  " ", "i", "t", "e", "m", " ", "a", "v", "a", "i", "l", "a", "b", "i", "l",
                  "i", "t", "y">>))
    ELSE Returned

placeOrder(getReply, postReply, reply) ==
    IF ~checkItemsAvailability(getReply, postReply).returns THEN Thrown(MsgItemsNotAvailable)
    ELSE IF reply.status = 0 THEN Thrown(MsgFailedToFetch)
    ELSE IF ~ok(reply)
         THEN Thrown(OrElse(reply.message, MsgHttpErrorStatus \o toString(reply.status)))
    ELSE IF ~reply.success
         THEN Thrown(OrElse(reply.message,
                <<"F", "a", "i", "l", "e", "d", " ", "t", "o", " ", "p", "l", "a", "c", "e",
                  " ", "o", "r", "d", "e", "r">>))
    ELSE Returned

\* src/lib/auth-api.ts: whether login throws, before it stores the token
loginOutcome(reply) ==
    IF reply.status = 0 THEN Thrown(MsgFailedToFetch)
    ELSE IF ~ok(reply) \/ ~reply.success
         THEN Thrown(OrElse(reply.message,
                <<"L", "o", "g", "i", "n", " ", "f", "a", "i", "l", "e", "d", " ", "(">> \o toString(reply.status) \o <<")">>))
    ELSE Returned

\* the other exported functions of order-api.ts, inventory-api.ts and api.ts,
\* each taking one exchange
ApiOperations ==
    {"fetchAllOrders", "fetchOrdersByPhone", "updateOrderStatus", "updatePaymentStatus",
     "cancelOrder", "fetchOrderStats", "fetchRevenueStats",
     "fetchInventoryItems", "createInventoryItem", "updateInventoryItem",
     "deleteInventoryItem", "placeInventoryOrder", "listInventoryOrders",
     "markInventoryOrderPurchased",
     "testApiConnection", "fetchMenuItems", "fetchAvailableMenuItems",
     "fetchMenuItemsByCategory"}

\* the functions that read the envelope of a 2xx response; deleteInventoryItem
\* and markInventoryOrderPurchased end after their test of res.ok, and
\* testApiConnection returns response.ok
readsEnvelope(op) ==
    op \notin {"deleteInventoryItem", "markInventoryOrderPurchased", "testApiConnection"}

\* the message thrown for a 2xx response with success = false and no message
fallbackMessage(op) ==
    CASE op = "fetchAllOrders" ->
            <<"F", "a", "i", "l", "e", "d", " ", "t", "o", " ", "f", "e", "t", "c", "h", " ",
              "o", "r", "d", "e", "r", "s">>
      [] op = "fetchOrdersByPhone" ->
            <<"F", "a", "i", "l", "e", "d", " ", "t", "o", " ", "f", "e", "t", "c", "h", " ",
              "o", "r", "d", "e", "r", "s">>
      [] op = "updateOrderStatus" ->
            <<"F", "a", "i", "l", "e", "d", " ", "t", "o", " ", "u", "p", "d", "a", "t", "e",
              " ", "o", "r", "d", "e", "r", " ", "s", "t", "a", "t", "u", "s">>
      [] op = "updatePaymentStatus" ->
            <<"F", "a", "i", "l", "e", "d", " ", "t", "o", " ", "u", "p", "d", "a", "t", "e",
              " ", "p", "a", "y", "m", "e", "n", "t", " ", "s", "t", "a", "t", "u", "s">>
      [] op = "cancelOrder" ->
            <<"F", "a", "i", "l", "e", "d", " ", "t", "o", " ", "c", "a", "n", "c", "e", "l",
              " ", "o", "r", "d", "e", "r">>
      [] op = "fetchOrderStats" ->
            <<"F", "a", "i", "l", "e", "d", " ", "t", "o", " ", "f", "e", "t", "c", "h", " ",
              "o", "r", "d", "e", "r", " ", "s", "t", "a", "t", "i", "s", "t", "i", "c", "s">>
      [] op = "fetchRevenueStats" ->
            <<"F", "a", "i", "l", "e", "d", " ", "t", "o", " ", "f", "e", "t", "c", "h", " ",
              "r", "e", "v", "e", "n", "u", "e", " ", "s", "t", "a", "t", "i", "s", "t", "i",
              "c", "s">>
      [] op = "fetchInventoryItems" ->
            <<"F", "a", "i", "l", "e", "d", " ", "t", "o", " ", "l", "o", "a", "d", " ", "i",
              "t", "e", "m", "s">>
      [] op = "createInventoryItem" ->
            <<"F", "a", "i", "l", "e", "d", " ", "t", "o", " ", "c", "r", "e", "a", "t", "e",
              " ", "i", "t", "e", "m">>
      [] op = "updateInventoryItem" ->
            <<"F", "a", "i", "l", "e", "d", " ", "t", "o", " ", "u", "p", "d", "a", "t", "e",
              " ", "i", "t", "e", "m">>
      [] op = "placeInventoryOrder" ->
            <<"F", "a", "i", "l", "e", "d", " ", "t", "o", " ", "p", "l", "a", "c", "e", " ",
              "o", "r", "d", "e", "r">>
      [] op = "listInventoryOrders" ->
            <<"F", "a", "i", "l", "e", "d", " ", "t", "o", " ", "l", "o", "a", "d", " ", "o",
              "r", "d", "e", "r", "s">>
      [] op = "fetchMenuItems" ->
            <<"F", "a", "i", "l", "e", "d", " ", "t", "o", " ", "f", "e", "t", "c", "h", " ",
              "m", "e", "n", "u", " ", "i", "t", "e", "m", "s">>
      [] op = "fetchAvailableMenuItems" ->
            <<"F", "a", "i", "l", "e", "d", " ", "t", "o", " ", "f", "e", "t", "c", "h", " ",
              "a", "v", "a", "i", "l", "a", "b", "l", "e", " ", "m", "e", "n", "u", " ", "i",
              "t", "e", "m", "s">>
      [] op = "fetchMenuItemsByCategory" ->
            <<"F", "a", "i", "l", "e", "d", " ", "t", "o", " ", "f", "e", "t", "c", "h", " ",
              "m", "e", "n", "u", " ", "i", "t", "e", "m", "s", " ", "b", "y", " ", "c", "a",
              "t", "e", "g", "o", "r", "y">>

\* the message thrown for a response that is not 2xx
notOkMessage(op, reply) ==
    CASE op \in {"fetchAllOrders", "fetchOrdersByPhone", "fetchOrderStats", "fetchRevenueStats",
                 "fetchAvailableMenuItems", "fetchMenuItemsByCategory"} ->
            MsgHttpErrorStatus \o toString(reply.status)
      [] op \in {"updateOrderStatus", "updatePaymentStatus"} ->
            OrElse(reply.message, MsgHttpErrorStatus \o toString(reply.status))
      [] op = "cancelOrder" -> OrElse(reply.message, fallbackMessage(op))
      [] op = "fetchMenuItems" ->
            \* `... - ${response.statusText}`
            OrElse(reply.message,
                   MsgHttpErrorStatus \o toString(reply.status) \o <<" ", "-", " ">>
                       \o <<"I", "n", "t", "e", "r", "n", "a", "l", " ", "S", "e", "r", "v", "e",
                         "r", " ", "E", "r", "r", "o", "r">>)
      [] OTHER -> <<"H", "T", "T", "P", " ">> \o toString(reply.status)

\* how a call of op ends on the exchange reply
apiOutcome(op, reply) ==
    IF op = "testApiConnection" THEN Returned
    ELSE IF reply.status = 0 THEN Thrown(MsgFailedToFetch)
    ELSE IF ~ok(reply) THEN Thrown(notOkMessage(op, reply))
    ELSE IF readsEnvelope(op) /\ ~reply.success
         THEN Thrown(OrElse(reply.message, fallbackMessage(op)))
    ELSE Returned

\* --------------------------------------------------------- input alphabets
NameInputs == { <<>>, <<" ">>, <<"A">>, <<"A", "l">> }

PhoneInputs ==
    { <<>>,
      <<"1", "2", "3", "4", "5">>,
      <<"1", "2", "3", "-", "4", "5", "6", "-", "7", "8", "9", "0">>,
      <<"1", "2", "3", "4", "5", "6", "7", "8", "9", "0", "1", "2", "3", "4", "5", "6">> }

EmailInputs ==
    { <<>>, <<"a", "@", "b">>, <<"a", "@", "b", ".", "c">> }

InstructionInputs == { <<>>, <<" ", "x">> }

\* what the container can put in the cart
CartItems ==
    { [id |-> <<"7">>, quantity |-> 1, specialInstructions |-> undefined],
      [id |-> <<"1", "2">>, quantity |-> 2, specialInstructions |-> <<"h", "o", "t">>] }

\* what the backend can answer to POST /orders
OrderResponses ==
    { [id |-> 42, totalAmount |-> 150], [id |-> 7, totalAmount |-> 0] }

ErrNotAvailable == "Some menu items are not available. Please refresh your cart and try again."
ErrServer == "Kitchen is closed"
NotAnError == "not an Error object"

PlaceOrderErrors == { ErrNotAvailable, ErrServer, NotAnError }

NoToast == [title |-> "none", description |-> "none"]

VARIABLES
    \* OrderModal state (useState)
    customerName, phoneNumber, customerEmail, generalInstructions,
    isSubmitting, emailError, phoneError, nameError,
    showPopup, popupData,
    \* OrderModal props, owned by the container
    isOpen, cart,
    \* placeOrder promises not yet settled, each with the OrderSubmission sent
    inflight,
    \* last toast raised by the modal
    toast,
    \* callbacks and requests invoked by the last step
    calls,
    \* history: placeOrder calls issued, resolved, and clearCart calls made,
    \* and the last Order a resolved placeOrder returned
    placed, succeeded, cleared, lastOrder

modalVars ==
    <<customerName, phoneNumber, customerEmail, generalInstructions,
      isSubmitting, emailError, phoneError, nameError, showPopup, popupData,
      isOpen, cart, inflight, toast, calls, placed, succeeded, cleared, lastOrder>>

VARIABLES
    \* OrderManagement state (useState)
    orders, loading, error, searchTerm, statusFilter, paymentFilter,
    currentPage, totalPages, totalCount, updatingOrders,
    \* the pending debounce timers, each the filters its closure holds
    timeoutId,
    \* fetchAllOrders promises not yet settled
    fetches,
    \* updateOrderStatus / updatePaymentStatus promises not yet settled
    updates,
    \* the backend's orders
    serverOrders,
    \* toasts raised, requests issued, fetch consumed and handlers finished by the last step
    toasts, issued, received, finished,
    \* user actions taken so far
    clicks

mgmtVars ==
    <<orders, loading, error, searchTerm, statusFilter, paymentFilter,
      currentPage, totalPages, totalCount, updatingOrders, timeoutId,
      fetches, updates, serverOrders, toasts, issued, received, finished, clicks>>

VARIABLES
    \* the last call of an API client: the response it handled and how it ended
    apiCall

\* the argument and the result of the last call of validatePhoneNumber
VARIABLES phoneArg, phoneResult

validatorVars == <<phoneArg, phoneResult>>

\* the token held by each client storage (the empty tuple, or the 1-tuple of
\* the token), the login calls awaiting their response, and the bookkeeping of
\* what has happened: calls of login and of logout so far, the logout counts
\* after which a login was started and succeeded, the last login that
\* finished, the last request sent with the stored token, requests sent so far
VARIABLES localStorageToken, sessionStorageToken, logins, loginsStarted, logouts,
          loggedInAfter, lastLogin, lastRequest, requestsSent

authVars == <<localStorageToken, sessionStorageToken, logins, loginsStarted, logouts,
              loggedInAfter, lastLogin, lastRequest, requestsSent>>

libVars == <<apiCall, validatorVars, authVars>>

vars == <<modalVars, mgmtVars, libVars>>

formVars ==
    <<customerName, phoneNumber, customerEmail, generalInstructions,
      emailError, phoneError, nameError>>

ModalInit ==
    /\ customerName = <<>>
    /\ phoneNumber = <<>>
    /\ customerEmail = <<>>
    /\ generalInstructions = <<>>
    /\ isSubmitting = FALSE
    /\ emailError = null
    /\ phoneError = null
    /\ nameError = null
    /\ showPopup = FALSE
    /\ popupData = nullData
    /\ isOpen = FALSE
    /\ cart = <<>>
    /\ inflight = <<>>
    /\ toast = NoToast
    /\ calls = {}
    /\ placed = 0
    /\ succeeded = 0
    /\ cleared = 0
    /\ lastOrder = nullData

\* --------------------------------------------- OrderManagement: the data
OrderIds == {1, 2}

TerminalStatuses == {"delivered", "cancelled"}

\* the labels of the five status buttons
StatusButtons == {"pending", "preparing", "ready", "completed", "cancelled"}

\* the three payment buttons: (newStatus, paymentMethod)
PaymentButtons ==
    { [paymentStatus |-> "pending", paymentMethod |-> "undefined"],
      [paymentStatus |-> "paid", paymentMethod |-> "cash"],
      [paymentStatus |-> "paid", paymentMethod |-> "upi"] }

SearchInputs == { <<>>, <<"9">> }
StatusFilterInputs == {"all", "pending"}
PaymentFilterInputs == {"all", "paid"}

mapBackendToFrontendStatus(backendStatus) ==
    IF backendStatus = "delivered" THEN "completed" ELSE backendStatus

mapFrontendToBackendStatus(frontendStatus) ==
    IF frontendStatus = "completed" THEN "delivered" ELSE frontendStatus

\* the filter values a render closes over
filtersOf(search, status, payment) ==
    [searchTerm |-> search, statusFilter |-> status, paymentFilter |-> payment]

currentFilters == filtersOf(searchTerm, statusFilter, paymentFilter)

\* the parameters loadOrders passes to fetchAllOrders
paramsOf(page, filters) ==
    [page |-> page,
     limit |-> 10,
     status |-> IF filters.statusFilter # "all" THEN filters.statusFilter ELSE "undefined",
     paymentStatus |-> IF filters.paymentFilter # "all" THEN filters.paymentFilter ELSE "undefined",
     phone |-> OrElse(trim(filters.searchTerm), undefined)]

\* one fetchAllOrders call in flight: its parameters, the filters of the closure
\* that made it and the handler awaiting it (<<>> if none)
fetchOf(page, filters, awaiting) ==
    [page |-> page, params |-> paramsOf(page, filters), filters |-> filters,
     awaiting |-> awaiting]

\* the calls in flight are kept as bags: they complete in any order
RECURSIVE BagOfSeq(_)
BagOfSeq(q) == IF q = <<>> THEN EmptyBag ELSE SetToBag({Head(q)}) (+) BagOfSeq(Tail(q))

NoHandler == <<>>

\* the backend's records when the view is mounted: an open order and a
\* delivered one
InitialServerOrders ==
    [o \in OrderIds |->
        IF o = 1
        THEN [orderStatus |-> "pending", paymentStatus |-> "pending",
              paymentMethod |-> "undefined"]
        ELSE [orderStatus |-> "delivered", paymentStatus |-> "paid",
              paymentMethod |-> "cash"]]

\* an empty displayed list
NoOrders == [o \in {} |-> 0]

\* the list a response carries: the backend's records of the ids on that page
pageOf(ids) == [o \in ids |-> serverOrders[o]]

MgmtInit ==
    /\ orders = NoOrders
    /\ loading = TRUE
    /\ error = null
    /\ searchTerm = <<>>
    /\ statusFilter = "all"
    /\ paymentFilter = "all"
    /\ currentPage = 1
    /\ totalPages = 1
    /\ totalCount = 0
    /\ updatingOrders = {}
    \* the three mount effects: loadOrders(), the debounce timer, loadOrders(currentPage)
    /\ timeoutId = <<filtersOf(<<>>, "all", "all")>>
    /\ fetches = BagOfSeq(<<fetchOf(1, filtersOf(<<>>, "all", "all"), NoHandler),
                            fetchOf(1, filtersOf(<<>>, "all", "all"), NoHandler)>>)
    /\ updates = EmptyBag
    /\ serverOrders = InitialServerOrders
    /\ toasts = {}
    /\ issued = <<>>
    /\ received = <<>>
    /\ finished = {}
    /\ clicks = 0

LibInit ==
    /\ apiCall = <<>>
    /\ phoneArg = <<>>
    /\ phoneResult = null
    /\ localStorageToken = <<>>
    /\ sessionStorageToken = <<>>
    /\ logins = {}
    /\ loginsStarted = 0
    /\ logouts = 0
    /\ loggedInAfter = {}
    /\ lastLogin = <<>>
    /\ lastRequest = <<>>
    /\ requestsSent = 0

Init == ModalInit /\ MgmtInit /\ LibInit

\* ------------------------------------------------------------- container
\* The page that owns the cart and the isOpen flag is not among the sources.
openModal ==
    /\ ~isOpen
    /\ ~showPopup
    /\ isOpen' = TRUE
    /\ calls' = {}
    /\ UNCHANGED mgmtVars
    /\ UNCHANGED libVars
    /\ UNCHANGED <<formVars, isSubmitting, showPopup, popupData, cart, inflight,
                   toast, placed, succeeded, cleared, lastOrder>>

addToCart ==
    /\ ~isOpen
    /\ ~showPopup
    /\ Len(cart) < MaxCart
    /\ \E item \in CartItems : cart' = Append(cart, item)
    /\ calls' = {}
    /\ UNCHANGED mgmtVars
    /\ UNCHANGED libVars
    /\ UNCHANGED <<formVars, isSubmitting, showPopup, popupData, isOpen, inflight,
                   toast, placed, succeeded, cleared, lastOrder>>

\* the clearCart prop: the container's single mutating capability
clearCart(c) == <<>>

\* the onClose prop
onClose(open) == FALSE

\* ------------------------------------------------------------- OrderModal
\* the checkout Dialog is rendered: open={isOpen && !showPopup}
DialogOpen == isOpen /\ ~showPopup

\* handleEmailChange validating the state's email instead of the typed value
handleEmailChange_validatesStaleValue ==
    /\ DialogOpen
    /\ \E value \in EmailInputs :
        /\ customerEmail' = value
        /\ emailError' = validateEmail(customerEmail)
    /\ calls' = {}
    /\ UNCHANGED mgmtVars
    /\ UNCHANGED libVars
    /\ UNCHANGED <<customerName, phoneNumber, generalInstructions, phoneError, nameError,
                   isSubmitting, showPopup, popupData, isOpen, cart, inflight,
                   toast, placed, succeeded, cleared, lastOrder>>

handleEmailChange ==
    /\ DialogOpen
    /\ \E value \in EmailInputs :
        /\ customerEmail' = value
        /\ emailError' = validateEmail(value)
    /\ calls' = {}
    /\ UNCHANGED mgmtVars
    /\ UNCHANGED libVars
    /\ UNCHANGED <<customerName, phoneNumber, generalInstructions, phoneError, nameError,
                   isSubmitting, showPopup, popupData, isOpen, cart, inflight,
                   toast, placed, succeeded, cleared, lastOrder>>

handlePhoneChange ==
    /\ DialogOpen
    /\ \E value \in PhoneInputs :
        /\ phoneNumber' = value
        /\ phoneError' = validatePhoneNumber(value)
    /\ calls' = {}
    /\ UNCHANGED mgmtVars
    /\ UNCHANGED libVars
    /\ UNCHANGED <<customerName, customerEmail, generalInstructions, emailError, nameError,
                   isSubmitting, showPopup, popupData, isOpen, cart, inflight,
                   toast, placed, succeeded, cleared, lastOrder>>

handleNameChange ==
    /\ DialogOpen
    /\ \E value \in NameInputs :
        /\ customerName' = value
        /\ nameError' = nameErrorOf(value)
    /\ calls' = {}
    /\ UNCHANGED mgmtVars
    /\ UNCHANGED libVars
    /\ UNCHANGED <<phoneNumber, customerEmail, generalInstructions, emailError, phoneError,
                   isSubmitting, showPopup, popupData, isOpen, cart, inflight,
                   toast, placed, succeeded, cleared, lastOrder>>

\* the Textarea's onChange
setGeneralInstructions ==
    /\ DialogOpen
    /\ \E value \in InstructionInputs : generalInstructions' = value
    /\ calls' = {}
    /\ UNCHANGED mgmtVars
    /\ UNCHANGED libVars
    /\ UNCHANGED <<customerName, phoneNumber, customerEmail, emailError, phoneError, nameError,
                   isSubmitting, showPopup, popupData, isOpen, cart, inflight,
                   toast, placed, succeeded, cleared, lastOrder>>

\* validateForm without its name check
validateForm_skipsName ==
    /\ validateEmail(customerEmail) = null
    /\ validatePhoneNumber(phoneNumber) = null

\* validateForm that accepts every form
validateForm_acceptsAll == TRUE

\* validateForm's return value
validateForm ==
    /\ nameErrorOf(customerName) = null
    /\ validateEmail(customerEmail) = null
    /\ validatePhoneNumber(phoneNumber) = null

\* the error states validateForm leaves: the name error is only ever set,
\* the email and phone errors are overwritten with the validators' results
validateForm_nameError ==
    IF nameErrorOf(customerName) # null THEN nameErrorOf(customerName) ELSE nameError

\* the OrderSubmission built by handleSubmit
orderDataOf(name, phone, email, instructions, c) ==
    [customerName |-> trim(name),
     customerPhone |-> OrElse(trim(phone), NotProvided),
     customerEmail |-> OrElse(trim(email), NotProvided),
     items |-> [k \in 1..Len(c) |->
                  [menuItemId |-> parseInt(c[k].id),
                   quantity |-> c[k].quantity,
                   specialInstructions |-> OrElse(c[k].specialInstructions, <<>>)]],
     specialInstructions |-> OrElse(trim(instructions), <<>>)]

\* handleSubmit without its empty-cart check
cartIsEmpty_never(c) == FALSE

\* cart.length === 0
cartIsEmpty(c) == Len(c) = 0

\* a submit button whose disabled= omits isSubmitting
SubmitEnabled_whileSubmitting ==
    /\ DialogOpen
    /\ nameError = null
    /\ emailError = null
    /\ phoneError = null

\* the submit button: disabled={isSubmitting || !!nameError || !!emailError || !!phoneError}
SubmitEnabled ==
    /\ DialogOpen
    /\ ~isSubmitting
    /\ nameError = null
    /\ emailError = null
    /\ phoneError = null

\* handleSubmit up to its await
handleSubmit ==
    /\ SubmitEnabled
    /\ IF ~validateForm
       THEN /\ nameError' = validateForm_nameError
            /\ emailError' = validateEmail(customerEmail)
            /\ phoneError' = validatePhoneNumber(phoneNumber)
            /\ toast' = [title |-> "Validation Error",
                         description |-> "Please fix the errors below before submitting"]
            /\ calls' = {}
            /\ UNCHANGED <<isSubmitting, inflight, placed>>
       ELSE /\ nameError' = validateForm_nameError
            /\ emailError' = validateEmail(customerEmail)
            /\ phoneError' = validatePhoneNumber(phoneNumber)
            /\ IF cartIsEmpty(cart)
               THEN /\ toast' = [title |-> "Empty Cart",
                                 description |-> "Please add items to your cart before placing an order"]
                    /\ calls' = {}
                    /\ UNCHANGED <<isSubmitting, inflight, placed>>
               ELSE /\ placed < MaxOrders
                    /\ isSubmitting' = TRUE
                    /\ inflight' = Append(inflight,
                                          orderDataOf(customerName, phoneNumber, customerEmail,
                                                      generalInstructions, cart))
                    /\ placed' = placed + 1
                    /\ calls' = {"placeOrder"}
                    /\ UNCHANGED toast
    /\ UNCHANGED <<customerName, phoneNumber, customerEmail, generalInstructions,
                   showPopup, popupData, isOpen, cart, succeeded, cleared, lastOrder>>
    /\ UNCHANGED mgmtVars
    /\ UNCHANGED libVars

\* resetForm without setGeneralInstructions("")
resetForm_keepsInstructions ==
    /\ customerName' = <<>>
    /\ phoneNumber' = <<>>
    /\ customerEmail' = <<>>
    /\ generalInstructions' = generalInstructions
    /\ emailError' = null
    /\ phoneError' = null
    /\ nameError' = null

\* resetForm: every field and every field error back to its initial value
resetForm ==
    /\ customerName' = <<>>
    /\ phoneNumber' = <<>>
    /\ customerEmail' = <<>>
    /\ generalInstructions' = <<>>
    /\ emailError' = null
    /\ phoneError' = null
    /\ nameError' = null

\* orderInfo = { id: response.id.toString(), totalAmount: response.totalAmount }
orderInfoOf(response) ==
    [id |-> toString(response.id), totalAmount |-> response.totalAmount]

RemoveAt(s, i) == SubSeq(s, 1, i - 1) \o SubSeq(s, i + 1, Len(s))

\* handleSubmit_then that presents the confirmation only over an open form
handleSubmit_then_onlyWhenOpen ==
    /\ \E i \in 1..Len(inflight) : \E response \in OrderResponses :
        /\ inflight' = RemoveAt(inflight, i)
        /\ popupData' = IF isOpen THEN <<orderInfoOf(response)>> ELSE popupData
        /\ lastOrder' = <<response>>
    /\ showPopup' = isOpen
    /\ resetForm
    /\ isSubmitting' = FALSE
    /\ succeeded' = succeeded + 1
    /\ calls' = {}
    /\ UNCHANGED mgmtVars
    /\ UNCHANGED libVars
    /\ UNCHANGED <<isOpen, cart, toast, placed, cleared>>

\* handleSubmit_then with the clearCart() and onClose() calls left in
handleSubmit_then_clearsCart ==
    /\ \E i \in 1..Len(inflight) : \E response \in OrderResponses :
        /\ inflight' = RemoveAt(inflight, i)
        /\ popupData' = <<orderInfoOf(response)>>
        /\ lastOrder' = <<response>>
    /\ showPopup' = TRUE
    /\ resetForm
    /\ cart' = clearCart(cart)
    /\ isOpen' = onClose(isOpen)
    /\ isSubmitting' = FALSE
    /\ succeeded' = succeeded + 1
    /\ cleared' = cleared + 1
    /\ calls' = {"clearCart", "onClose"}
    /\ UNCHANGED mgmtVars
    /\ UNCHANGED libVars
    /\ UNCHANGED <<toast, placed>>

\* handleSubmit after placeOrder resolved: popup, resetForm, finally
handleSubmit_then ==
    /\ \E i \in 1..Len(inflight) : \E response \in OrderResponses :
        /\ inflight' = RemoveAt(inflight, i)
        /\ popupData' = <<orderInfoOf(response)>>
        /\ lastOrder' = <<response>>
    /\ showPopup' = TRUE
    /\ resetForm
    /\ isSubmitting' = FALSE
    /\ succeeded' = succeeded + 1
    /\ calls' = {}
    /\ UNCHANGED mgmtVars
    /\ UNCHANGED libVars
    /\ UNCHANGED <<isOpen, cart, toast, placed, cleared>>

\* the description of the "Order Failed" toast
errorMessageOf(err) ==
    IF err = NotAnError THEN "Failed to place order. Please try again."
    ELSE IF err = ErrNotAvailable
         THEN "Some items in your cart are no longer available. Please refresh your cart and try again."
         ELSE err

\* handleSubmit_catch that also resets the form
handleSubmit_catch_resets ==
    /\ \E i \in 1..Len(inflight) : \E err \in PlaceOrderErrors :
        /\ inflight' = RemoveAt(inflight, i)
        /\ toast' = [title |-> "Order Failed", description |-> errorMessageOf(err)]
    /\ resetForm
    /\ isSubmitting' = FALSE
    /\ calls' = {}
    /\ UNCHANGED mgmtVars
    /\ UNCHANGED libVars
    /\ UNCHANGED <<showPopup, popupData, isOpen, cart, placed, succeeded, cleared, lastOrder>>

\* handleSubmit_catch without the finally block
handleSubmit_catch_noFinally ==
    /\ \E i \in 1..Len(inflight) : \E err \in PlaceOrderErrors :
        /\ inflight' = RemoveAt(inflight, i)
        /\ toast' = [title |-> "Order Failed", description |-> errorMessageOf(err)]
    /\ calls' = {}
    /\ UNCHANGED mgmtVars
    /\ UNCHANGED libVars
    /\ UNCHANGED <<formVars, isSubmitting, showPopup, popupData, isOpen, cart, placed,
                   succeeded, cleared, lastOrder>>

\* handleSubmit after placeOrder rejected: catch, finally
handleSubmit_catch ==
    /\ \E i \in 1..Len(inflight) : \E err \in PlaceOrderErrors :
        /\ inflight' = RemoveAt(inflight, i)
        /\ toast' = [title |-> "Order Failed", description |-> errorMessageOf(err)]
    /\ isSubmitting' = FALSE
    /\ calls' = {}
    /\ UNCHANGED mgmtVars
    /\ UNCHANGED libVars
    /\ UNCHANGED <<formVars, showPopup, popupData, isOpen, cart, placed, succeeded, cleared, lastOrder>>

\* OrderSuccessPopup without its "if (!open) return null"
PopupRendered_always == TRUE

\* OrderSuccessPopup renders its backdrop, close icon and button only when open
PopupRendered == showPopup

\* the orderId and totalAmount props: popupData?.id, popupData?.totalAmount
orderIdProp == IF popupData = nullData THEN undefined ELSE popupData[1].id

totalAmountProp == IF popupData = nullData THEN -1 ELSE popupData[1].totalAmount

\* the "Order ID" row: rendered when (orderId || totalAmount) && orderId
orderIdShown ==
    IF PopupRendered /\ orderIdProp # undefined /\ orderIdProp # <<>>
    THEN orderIdProp ELSE undefined

\* the "Total Amount" row: rendered when (orderId || totalAmount) && totalAmount !== undefined
totalAmountShown ==
    IF /\ PopupRendered
       /\ popupData # nullData
       /\ ((orderIdProp # undefined /\ orderIdProp # <<>>) \/ totalAmountProp # 0)
    THEN totalAmountProp ELSE -1

handlePopupClose ==
    /\ PopupRendered
    /\ showPopup' = FALSE
    /\ popupData' = nullData
    /\ cart' = clearCart(cart)
    /\ isOpen' = onClose(isOpen)
    /\ cleared' = cleared + 1
    /\ calls' = {"clearCart", "onClose"}
    /\ UNCHANGED mgmtVars
    /\ UNCHANGED libVars
    /\ UNCHANGED <<formVars, isSubmitting, inflight, toast, placed, succeeded, lastOrder>>

\* handleClose without its resetForm() call
handleClose_noReset ==
    /\ isOpen' = onClose(isOpen)
    /\ calls' = {"onClose"}
    /\ UNCHANGED mgmtVars
    /\ UNCHANGED libVars
    /\ UNCHANGED <<formVars, isSubmitting, showPopup, popupData, cart, inflight, toast,
                   placed, succeeded, cleared, lastOrder>>

\* resetForm, then onClose
handleClose ==
    /\ resetForm
    /\ isOpen' = onClose(isOpen)
    /\ calls' = {"onClose"}
    /\ UNCHANGED mgmtVars
    /\ UNCHANGED libVars
    /\ UNCHANGED <<isSubmitting, showPopup, popupData, cart, inflight, toast,
                   placed, succeeded, cleared, lastOrder>>

\* the Cancel button: disabled={isSubmitting}
cancelButton ==
    /\ DialogOpen
    /\ ~isSubmitting
    /\ handleClose

\* the Dialog's onOpenChange(false): Escape or a click outside
onOpenChange ==
    /\ DialogOpen
    /\ ~showPopup
    /\ handleClose

NextModal ==
    \/ openModal
    \/ addToCart
    \/ handleEmailChange
    \/ handlePhoneChange
    \/ handleNameChange
    \/ setGeneralInstructions
    \/ handleSubmit
    \/ handleSubmit_then
    \/ handleSubmit_catch
    \/ handlePopupClose
    \/ cancelButton
    \/ onOpenChange

SpecModal == Init /\ [][NextModal]_vars

\* ------------------------------------- OrderModal, the second definition
\* order-modal.tsx holds a second OrderModal (lines 448-836) with the same
\* fields, validators, validateForm, resetForm and handleClose, no popup
\* state, and its own continuation of handleSubmit.

\* after placeOrder resolved: toast, field reset, clearCart(), onClose(), finally
handleSubmit2_then ==
    /\ \E i \in 1..Len(inflight) : \E response \in OrderResponses :
        /\ inflight' = RemoveAt(inflight, i)
        /\ toast' = [title |-> "Order Placed Successfully!",
                     description |-> "Order # has been placed. Total:",
                     id |-> response.id, totalAmount |-> response.totalAmount]
        /\ lastOrder' = <<response>>
    /\ resetForm
    /\ cart' = clearCart(cart)
    /\ isOpen' = onClose(isOpen)
    /\ isSubmitting' = FALSE
    /\ succeeded' = succeeded + 1
    /\ cleared' = cleared + 1
    /\ calls' = {"clearCart", "onClose"}
    /\ UNCHANGED mgmtVars
    /\ UNCHANGED libVars
    /\ UNCHANGED <<showPopup, popupData, placed>>

\* error instanceof Error ? error.message : "Failed to place order. Please try again."
errorMessage2Of(err) ==
    IF err = NotAnError THEN "Failed to place order. Please try again." ELSE err

\* after placeOrder rejected: catch, finally
handleSubmit2_catch ==
    /\ \E i \in 1..Len(inflight) : \E err \in PlaceOrderErrors :
        /\ inflight' = RemoveAt(inflight, i)
        /\ toast' = [title |-> "Order Failed", description |-> errorMessage2Of(err)]
    /\ isSubmitting' = FALSE
    /\ calls' = {}
    /\ UNCHANGED mgmtVars
    /\ UNCHANGED libVars
    /\ UNCHANGED <<formVars, showPopup, popupData, isOpen, cart, placed, succeeded, cleared, lastOrder>>

\* <Dialog open={isOpen} onOpenChange={handleClose}>
onOpenChange2 ==
    /\ isOpen
    /\ handleClose

NextModal2 ==
    \/ openModal
    \/ addToCart
    \/ handleEmailChange
    \/ handlePhoneChange
    \/ handleNameChange
    \/ setGeneralInstructions
    \/ handleSubmit
    \/ handleSubmit2_then
    \/ handleSubmit2_catch
    \/ cancelButton
    \/ onOpenChange2

SpecModal2 == Init /\ [][NextModal2]_vars

\* ----------------------------------------- OrderManagement: the backend
\* The backend is reached over HTTP and is not among the sources: it keeps the
\* authoritative record of every order, answers GET /orders with some page of
\* those records (or an error), echoing the page asked for, and applies or
\* rejects a status or payment update.

FailAnswer == [ok |-> FALSE, message |-> "HTTP error! status: 500"]

\* the sets of orders a page of the backend's answer can hold
ResponsePages == {{}, {1}, OrderIds}

OkAnswers(f) ==
    { [ok |-> TRUE, orders |-> pageOf(ids), totalCount |-> Cardinality(ids),
       totalPages |-> tp, currentPage |-> f.page] :
         ids \in ResponsePages, tp \in f.page..MaxPages }

\* what fetchAllOrders can settle with for request f
Answers(f) == OkAnswers(f) \cup {FailAnswer}

\* the record of order u.orderId once the backend has applied update u
appliedTo(rec, u) ==
    IF u.handler = "handleStatusUpdate"
    THEN [rec EXCEPT !.orderStatus = u.status]
    ELSE [rec EXCEPT !.paymentStatus = u.paymentStatus,
                     !.paymentMethod = IF u.paymentMethod # "undefined"
                                       THEN u.paymentMethod ELSE rec.paymentMethod]

\* ------------------------------------------- OrderManagement: the view
\* the request fetchAllOrders sends for a loadOrders call
GET(f) == [url |-> "GET /orders", page |-> f.page, params |-> f.params]

\* "if (loading) return <Card>Loading orders...</Card>": nothing else is rendered
ViewRendered == ~loading

isUpdating(o) == o \in updatingOrders

\* a status button whose disabled= omits the two terminal statuses
StatusButtonDisabled_onlyUpdating(o) == isUpdating(o)

\* disabled= of the five status buttons of order o
StatusButtonDisabled(o) ==
    \/ isUpdating(o)
    \/ orders[o].orderStatus = "cancelled"
    \/ orders[o].orderStatus = "delivered"

\* payment buttons without disabled=
PaymentButtonDisabled_never(o) == FALSE

\* disabled= of the three payment buttons of order o
PaymentButtonDisabled(o) == isUpdating(o)

\* loadOrders without its page-1 fallback
emptyPageFallback_never(response, page) == FALSE

\* response.orders.length === 0 && page > 1
emptyPageFallback(response, page) ==
    /\ DOMAIN response.orders = {}
    /\ page > 1

\* the toast a handler raises after its reconciliation loadOrders returned
handlerToast(h) ==
    IF h.outcome = "rejected" THEN "Update Failed"
    ELSE IF h.handler = "handleStatusUpdate" THEN "Status Updated"
    ELSE "Payment Updated"

\* a setOrders that keeps the listed orders the response does not hold
setOrders_merges(prevOrders, response) ==
    [o \in DOMAIN prevOrders \cup DOMAIN response.orders |->
        IF o \in DOMAIN response.orders THEN response.orders[o] ELSE prevOrders[o]]

\* setOrders(response.orders)
setOrders(prevOrders, response) == response.orders

\* loadOrders after fetchAllOrders settled (then / catch / finally), the rest of
\* the handler that awaited it, and the page-change effect of the next render.
\* The backend reads its records at the moment it answers, and the answer is
\* handled in the same step. The state updates made after the await are
\* batched into one render (React 18), so the page-change effect runs last.
loadOrders_settled ==
    /\ \E f \in BagToSet(fetches) : \E a \in Answers(f) :
           LET rest == fetches (-) SetToBag({f})
               fallback == a.ok /\ emptyPageFallback(a, f.page)
               replaced == a.ok /\ ~fallback
               page1 == IF fallback THEN 1
                        ELSE IF replaced THEN a.currentPage ELSE currentPage
               effect == page1 # currentPage
               inner == IF fallback THEN <<fetchOf(1, f.filters, NoHandler)>> ELSE <<>>
               outer == IF effect THEN <<fetchOf(page1, currentFilters, NoHandler)>> ELSE <<>>
           IN
           /\ fetches' = rest (+) BagOfSeq(inner \o outer)
           /\ issued' = [k \in 1..Len(inner \o outer) |-> GET((inner \o outer)[k])]
           /\ received' = <<[request |-> f, response |-> a]>>
           /\ orders' = IF replaced THEN setOrders(orders, a) ELSE orders
           /\ totalCount' = IF replaced THEN a.totalCount ELSE totalCount
           /\ totalPages' = IF replaced THEN a.totalPages ELSE totalPages
           /\ currentPage' = page1
           /\ error' = IF fallback \/ effect THEN null
                       ELSE IF ~a.ok THEN a.message ELSE error
           /\ loading' = effect
           /\ toasts' = (IF ~a.ok THEN {"Loading Failed"} ELSE {})
                           \cup (IF f.awaiting # NoHandler
                                 THEN {handlerToast(f.awaiting[1])} ELSE {})
           /\ finished' = IF f.awaiting # NoHandler THEN {f.awaiting[1]} ELSE {}
           /\ updatingOrders' = IF f.awaiting # NoHandler
                                THEN updatingOrders \ {f.awaiting[1].orderId}
                                ELSE updatingOrders
    /\ UNCHANGED <<searchTerm, statusFilter, paymentFilter, timeoutId, updates,
                   serverOrders, clicks>>
    /\ UNCHANGED modalVars
    /\ UNCHANGED libVars

\* a handler after its update request settled: the backend applied it (resolved)
\* or not (rejected); either way the handler calls loadOrders(currentPage) of
\* the render it was created in and awaits it
updateSettled(u, outcome) ==
    /\ updates' = updates (-) SetToBag({u})
    /\ serverOrders' = IF outcome = "resolved"
                       THEN [serverOrders EXCEPT ![u.orderId] = appliedTo(@, u)]
                       ELSE serverOrders
    /\ fetches' = fetches (+) SetToBag({fetchOf(u.page, u.filters,
                                 <<[handler |-> u.handler, orderId |-> u.orderId,
                                    outcome |-> outcome]>>)})
    /\ issued' = <<GET(fetchOf(u.page, u.filters, NoHandler))>>
    /\ loading' = TRUE
    /\ error' = null
    /\ toasts' = {}
    /\ received' = <<>>
    /\ finished' = {}
    /\ UNCHANGED <<orders, searchTerm, statusFilter, paymentFilter, currentPage,
                   totalPages, totalCount, updatingOrders, timeoutId, clicks>>
    /\ UNCHANGED modalVars
    /\ UNCHANGED libVars

handleStatusUpdate_then ==
    \E u \in BagToSet(updates) :
        u.handler = "handleStatusUpdate" /\ updateSettled(u, "resolved")

handleStatusUpdate_catch ==
    \E u \in BagToSet(updates) :
        u.handler = "handleStatusUpdate" /\ updateSettled(u, "rejected")

handlePaymentUpdate_then ==
    \E u \in BagToSet(updates) :
        u.handler = "handlePaymentUpdate" /\ updateSettled(u, "resolved")

handlePaymentUpdate_catch ==
    \E u \in BagToSet(updates) :
        u.handler = "handlePaymentUpdate" /\ updateSettled(u, "rejected")

\* handleStatusUpdate up to its first await
handleStatusUpdate(orderId, newStatus) ==
    /\ updatingOrders' = updatingOrders \cup {orderId}
    /\ orders' = [o \in DOMAIN orders |->
                    IF o = orderId
                    THEN [orders[o] EXCEPT !.orderStatus = mapFrontendToBackendStatus(newStatus)]
                    ELSE orders[o]]
    /\ updates' = updates (+) SetToBag({
                         [handler |-> "handleStatusUpdate", orderId |-> orderId,
                          status |-> mapFrontendToBackendStatus(newStatus),
                          paymentStatus |-> "undefined", paymentMethod |-> "undefined",
                          page |-> currentPage, filters |-> currentFilters]})
    /\ issued' = <<[url |-> "PUT /orders/status", orderId |-> orderId,
                    status |-> mapFrontendToBackendStatus(newStatus)]>>
    /\ toasts' = {}
    /\ received' = <<>>
    /\ finished' = {}
    /\ clicks' = clicks + 1
    /\ UNCHANGED <<loading, error, searchTerm, statusFilter, paymentFilter, currentPage,
                   totalPages, totalCount, timeoutId, fetches, serverOrders>>
    /\ UNCHANGED modalVars
    /\ UNCHANGED libVars

\* handlePaymentUpdate up to its first await
handlePaymentUpdate(orderId, newStatus, paymentMethod) ==
    /\ updatingOrders' = updatingOrders \cup {orderId}
    /\ orders' = [o \in DOMAIN orders |->
                    IF o = orderId
                    THEN [orders[o] EXCEPT
                            !.paymentStatus = newStatus,
                            !.paymentMethod = IF paymentMethod # "undefined"
                                              THEN paymentMethod ELSE @]
                    ELSE orders[o]]
    /\ updates' = updates (+) SetToBag({
                         [handler |-> "handlePaymentUpdate", orderId |-> orderId,
                          status |-> "undefined",
                          paymentStatus |-> newStatus, paymentMethod |-> paymentMethod,
                          page |-> currentPage, filters |-> currentFilters]})
    /\ issued' = <<[url |-> "PUT /orders/payment", orderId |-> orderId,
                    paymentStatus |-> newStatus, paymentMethod |-> paymentMethod]>>
    /\ toasts' = {}
    /\ received' = <<>>
    /\ finished' = {}
    /\ clicks' = clicks + 1
    /\ UNCHANGED <<loading, error, searchTerm, statusFilter, paymentFilter, currentPage,
                   totalPages, totalCount, timeoutId, fetches, serverOrders>>
    /\ UNCHANGED modalVars
    /\ UNCHANGED libVars

\* a click on one of the status buttons of a listed order
statusButton ==
    /\ ViewRendered
    /\ clicks < MaxClicks
    /\ \E o \in DOMAIN orders : \E status \in StatusButtons :
        /\ ~StatusButtonDisabled(o)
        /\ handleStatusUpdate(o, status)

\* a click on one of the payment buttons of a listed order
paymentButton ==
    /\ ViewRendered
    /\ clicks < MaxClicks
    /\ \E o \in DOMAIN orders : \E b \in PaymentButtons :
        /\ ~PaymentButtonDisabled(o)
        /\ handlePaymentUpdate(o, b.paymentStatus, b.paymentMethod)

\* a loadOrders(page) call made by an event handler or an effect whose closure
\* (`calls_`); `page1` and `filters1` are the currentPage and the filters the
\* next render sees, whose page-change effect runs if currentPage changed
loadOrdersCalls(calls_, page1, filters1) ==
    LET effect == page1 # currentPage
        outer == IF effect THEN <<fetchOf(page1, filters1, NoHandler)>> ELSE <<>>
    IN
    /\ fetches' = fetches (+) BagOfSeq(calls_ \o outer)
    /\ issued' = [k \in 1..Len(calls_ \o outer) |-> GET((calls_ \o outer)[k])]
    /\ currentPage' = page1
    /\ IF calls_ \o outer # <<>>
       THEN loading' = TRUE /\ error' = null
       ELSE UNCHANGED <<loading, error>>
    /\ toasts' = {}
    /\ received' = <<>>
    /\ finished' = {}

\* the pagination row is rendered: orders.length > 0 && totalPages > 1
PaginationRendered == ViewRendered /\ DOMAIN orders # {} /\ totalPages > 1

Min(a, b) == IF a < b THEN a ELSE b

Max(a, b) == IF a > b THEN a ELSE b

\* the Next button, and the page-change effect
nextPage ==
    /\ PaginationRendered
    /\ currentPage # totalPages
    /\ clicks < MaxClicks
    /\ clicks' = clicks + 1
    /\ loadOrdersCalls(<<>>, Min(totalPages, currentPage + 1), currentFilters)
    /\ UNCHANGED <<orders, searchTerm, statusFilter, paymentFilter, totalPages, totalCount,
                   updatingOrders, timeoutId, updates, serverOrders>>
    /\ UNCHANGED modalVars
    /\ UNCHANGED libVars

\* the Previous button, and the page-change effect
previousPage ==
    /\ PaginationRendered
    /\ currentPage # 1
    /\ clicks < MaxClicks
    /\ clicks' = clicks + 1
    /\ loadOrdersCalls(<<>>, Max(1, currentPage - 1), currentFilters)
    /\ UNCHANGED <<orders, searchTerm, statusFilter, paymentFilter, totalPages, totalCount,
                   updatingOrders, timeoutId, updates, serverOrders>>
    /\ UNCHANGED modalVars
    /\ UNCHANGED libVars

\* the Refresh button: loadOrders(currentPage)
refreshButton ==
    /\ ViewRendered
    /\ clicks < MaxClicks
    /\ clicks' = clicks + 1
    /\ loadOrdersCalls(<<fetchOf(currentPage, currentFilters, NoHandler)>>, currentPage,
                       currentFilters)
    /\ UNCHANGED <<orders, searchTerm, statusFilter, paymentFilter, totalPages, totalCount,
                   updatingOrders, timeoutId, updates, serverOrders>>
    /\ UNCHANGED modalVars
    /\ UNCHANGED libVars

\* the Retry button of the error alert: loadOrders(currentPage)
retryButton ==
    /\ ViewRendered
    /\ error # null
    /\ clicks < MaxClicks
    /\ clicks' = clicks + 1
    /\ loadOrdersCalls(<<fetchOf(currentPage, currentFilters, NoHandler)>>, currentPage,
                       currentFilters)
    /\ UNCHANGED <<orders, searchTerm, statusFilter, paymentFilter, totalPages, totalCount,
                   updatingOrders, timeoutId, updates, serverOrders>>
    /\ UNCHANGED modalVars
    /\ UNCHANGED libVars

\* filterChange whose debounce effect has no cleanup: the pending timer stays
filterChange_noCleanup ==
    /\ ViewRendered
    /\ clicks < MaxClicks
    /\ clicks' = clicks + 1
    /\ \/ \E v \in SearchInputs \ {searchTerm} :
            searchTerm' = v /\ UNCHANGED <<statusFilter, paymentFilter>>
       \/ \E v \in StatusFilterInputs \ {statusFilter} :
            statusFilter' = v /\ UNCHANGED <<searchTerm, paymentFilter>>
       \/ \E v \in PaymentFilterInputs \ {paymentFilter} :
            paymentFilter' = v /\ UNCHANGED <<searchTerm, statusFilter>>
    /\ timeoutId' = Append(timeoutId, currentFilters')
    /\ toasts' = {}
    /\ issued' = <<>>
    /\ received' = <<>>
    /\ finished' = {}
    /\ UNCHANGED <<orders, loading, error, currentPage, totalPages, totalCount,
                   updatingOrders, fetches, updates, serverOrders>>
    /\ UNCHANGED modalVars
    /\ UNCHANGED libVars

\* a change of one of the three filter inputs, and the debounce effect: the
\* cleanup clears the pending timer and a new one is set
filterChange ==
    /\ ViewRendered
    /\ clicks < MaxClicks
    /\ clicks' = clicks + 1
    /\ \/ \E v \in SearchInputs \ {searchTerm} :
            searchTerm' = v /\ UNCHANGED <<statusFilter, paymentFilter>>
       \/ \E v \in StatusFilterInputs \ {statusFilter} :
            statusFilter' = v /\ UNCHANGED <<searchTerm, paymentFilter>>
       \/ \E v \in PaymentFilterInputs \ {paymentFilter} :
            paymentFilter' = v /\ UNCHANGED <<searchTerm, statusFilter>>
    /\ timeoutId' = <<currentFilters'>>
    /\ toasts' = {}
    /\ issued' = <<>>
    /\ received' = <<>>
    /\ finished' = {}
    /\ UNCHANGED <<orders, loading, error, currentPage, totalPages, totalCount,
                   updatingOrders, fetches, updates, serverOrders>>
    /\ UNCHANGED modalVars
    /\ UNCHANGED libVars

\* the Clear Filters button of the empty list: the three filters reset,
\* setCurrentPage(1), loadOrders(1) of the old render, then both effects
clearFiltersButton ==
    /\ ViewRendered
    /\ DOMAIN orders = {}
    /\ (searchTerm # <<>> \/ statusFilter # "all" \/ paymentFilter # "all")
    /\ clicks < MaxClicks
    /\ clicks' = clicks + 1
    /\ searchTerm' = <<>>
    /\ statusFilter' = "all"
    /\ paymentFilter' = "all"
    /\ timeoutId' = <<filtersOf(<<>>, "all", "all")>>
    /\ loadOrdersCalls(<<fetchOf(1, currentFilters, NoHandler)>>, 1,
                       filtersOf(<<>>, "all", "all"))
    /\ UNCHANGED <<orders, totalPages, totalCount, updatingOrders, updates, serverOrders>>
    /\ UNCHANGED modalVars
    /\ UNCHANGED libVars

\* a pending debounce timer fires: loadOrders(1) of the render that set it
debounceFires ==
    /\ \E i \in 1..Len(timeoutId) :
        /\ timeoutId' = RemoveAt(timeoutId, i)
        /\ loadOrdersCalls(<<fetchOf(1, timeoutId[i], NoHandler)>>, currentPage,
                           currentFilters)
    /\ UNCHANGED <<orders, searchTerm, statusFilter, paymentFilter, totalPages, totalCount,
                   updatingOrders, updates, serverOrders, clicks>>
    /\ UNCHANGED modalVars
    /\ UNCHANGED libVars

NextMgmt ==
    \/ loadOrders_settled
    \/ handleStatusUpdate_then
    \/ handleStatusUpdate_catch
    \/ handlePaymentUpdate_then
    \/ handlePaymentUpdate_catch
    \/ statusButton
    \/ paymentButton
    \/ nextPage
    \/ previousPage
    \/ refreshButton
    \/ retryButton
    \/ filterChange
    \/ clearFiltersButton
    \/ debounceFires

SpecMgmt == Init /\ [][NextMgmt]_vars

\* ------------------------------------------------- calls of the API clients
\* One call of an API client against one backend exchange.
\* the replies to GET /menu/test, of which only the arrival is observed
TestReplies == {r \in HttpReplies : r.success /\ r.message = undefined}

\* the exchange checkItemsAvailability ended on: the GET if it got no
\* response, else the POST
availabilityReply(getReply, postReply) ==
    IF getReply.status = 0 THEN getReply ELSE postReply

callCheckItemsAvailability ==
    /\ \E getReply \in TestReplies, postReply \in HttpReplies :
        apiCall' = <<[op |-> "checkItemsAvailability",
                      reply |-> availabilityReply(getReply, postReply),
                      outcome |-> checkItemsAvailability(getReply, postReply)]>>
    /\ UNCHANGED <<modalVars, mgmtVars, validatorVars, authVars>>

\* placeOrder ends on the exchange of the availability check if that check
\* threw, else on its own POST /orders
callPlaceOrder ==
    /\ \E getReply \in TestReplies, postReply \in HttpReplies, reply \in HttpReplies :
        apiCall' = <<[op |-> "placeOrder",
                      reply |-> IF checkItemsAvailability(getReply, postReply).returns
                                THEN reply
                                ELSE availabilityReply(getReply, postReply),
                      outcome |-> placeOrder(getReply, postReply, reply)]>>
    /\ UNCHANGED <<modalVars, mgmtVars, validatorVars, authVars>>

\* error.message.includes('not available')
MsgNotAvailable ==
    <<"n", "o", "t", " ", "a", "v", "a", "i", "l", "a", "b", "l", "e">>

MsgRefreshCart ==
    <<"S", "o", "m", "e", " ", "i", "t", "e", "m", "s", " ", "i", "n", " ", "y", "o", "u", "r",
      " ", "c", "a", "r", "t", " ", "a", "r", "e", " ", "n", "o", " ", "l", "o", "n", "g", "e",
      "r", " ", "a", "v", "a", "i", "l", "a", "b", "l", "e", ".", " ", "P", "l", "e", "a", "s",
      "e", " ", "r", "e", "f", "r", "e", "s", "h", " ", "y", "o", "u", "r", " ", "c", "a", "r",
      "t", " ", "a", "n", "d", " ", "t", "r", "y", " ", "a", "g", "a", "i", "n", ".">>


\* String.prototype.includes
includes(s, sub) ==
    \E i \in 0..(Len(s) - Len(sub)) : SubSeq(s, i + 1, i + Len(sub)) = sub

\* the description of the "Order Failed" toast for what placeOrder threw;
\* placeOrder only ever throws Error objects
orderFailedMessage(outcome) ==
    IF includes(outcome.error, MsgNotAvailable) THEN MsgRefreshCart ELSE outcome.error

\* handleSubmit from the call of placeOrder to the end of its catch block
handleSubmit_placeOrder ==
    /\ \E getReply \in TestReplies, postReply \in HttpReplies, reply \in HttpReplies :
        LET outcome == placeOrder(getReply, postReply, reply) IN
        apiCall' = <<[op |-> "handleSubmit",
                      reply |-> IF checkItemsAvailability(getReply, postReply).returns
                                THEN reply
                                ELSE availabilityReply(getReply, postReply),
                      outcome |-> outcome,
                      toast |-> IF outcome.returns
                                THEN [title |-> "none", description |-> <<>>]
                                ELSE [title |-> "Order Failed",
                                      description |-> orderFailedMessage(outcome)]]>>
    /\ UNCHANGED <<modalVars, mgmtVars, validatorVars, authVars>>

callApi ==
    /\ \E op \in ApiOperations, reply \in HttpReplies :
        apiCall' = <<[op |-> op, reply |-> reply, outcome |-> apiOutcome(op, reply)]>>
    /\ UNCHANGED <<modalVars, mgmtVars, validatorVars, authVars>>

callLogin ==
    /\ \E reply \in HttpReplies :
        apiCall' = <<[op |-> "login", reply |-> reply, outcome |-> loginOutcome(reply)]>>
    /\ UNCHANGED <<modalVars, mgmtVars, validatorVars, authVars>>

NextApi ==
    \/ callCheckItemsAvailability
    \/ callPlaceOrder
    \/ handleSubmit_placeOrder
    \/ callApi
    \/ callLogin

SpecApi == Init /\ [][NextApi]_vars

\* ------------------------------------------------ calls of the validators
DigitCount(s) == Cardinality({i \in 1..Len(s) : IsDigit(s[i])})

\* the phone field grows by one digit and is validated (handlePhoneChange)
typePhoneDigit ==
    /\ DigitCount(phoneArg) < MaxPhoneDigits
    /\ phoneArg' = Append(phoneArg, toString(DigitCount(phoneArg) % 10)[1])
    /\ phoneResult' = validatePhoneNumber(phoneArg')
    /\ UNCHANGED <<modalVars, mgmtVars, apiCall, authVars>>

\* the phone field grows by one non-digit, at its end or at its start, and is validated
typePhoneSeparator ==
    /\ Len(phoneArg) - DigitCount(phoneArg) < MaxPhoneSeparators
    /\ \E c \in {" ", "-", "x"} :
          \/ phoneArg' = Append(phoneArg, c)
          \/ phoneArg' = <<c>> \o phoneArg
    /\ phoneResult' = validatePhoneNumber(phoneArg')
    /\ UNCHANGED <<modalVars, mgmtVars, apiCall, authVars>>

NextPhone ==
    \/ typePhoneDigit
    \/ typePhoneSeparator

SpecPhone == Init /\ [][NextPhone]_vars

\* -------------------------------------------- login, logout and the token
\* what POST /auth/login can answer: an envelope, with or without data.token
LoginReplies ==
    [status : HttpStatuses, success : BOOLEAN, message : {undefined, MsgKitchenClosed},
     token : BOOLEAN]

\* localStorage.getItem("token") || sessionStorage.getItem("token")
storedToken == IF localStorageToken # <<>> THEN localStorageToken ELSE sessionStorageToken

\* logout has run and no login started after the last logout has succeeded
LoggedOut == logouts > 0 /\ logouts \notin loggedInAfter

\* login up to its await of fetch
login_start ==
    /\ loginsStarted < MaxLogins
    /\ loginsStarted' = loginsStarted + 1
    /\ logins' = logins \cup {[id |-> loginsStarted + 1, startedAfter |-> logouts]}
    /\ requestsSent' = requestsSent + 1
    /\ UNCHANGED <<localStorageToken, sessionStorageToken, logouts, loggedInAfter,
                   lastLogin, lastRequest>>
    /\ UNCHANGED <<modalVars, mgmtVars, apiCall, validatorVars>>

\* login from the arrival of the response to its return or throw; inside its
\* try block both setItem calls succeed, or the first throws, or the second
login_settled ==
    /\ \E l \in logins, reply \in LoginReplies, setItem \in {"stored", "localStorage throws", "sessionStorage throws"} :
        /\ logins' = logins \ {l}
        /\ lastLogin' = <<[id |-> l.id, returns |-> loginOutcome(reply).returns]>>
        /\ IF ~loginOutcome(reply).returns
           THEN UNCHANGED <<localStorageToken, sessionStorageToken, loggedInAfter>>
           ELSE /\ loggedInAfter' = loggedInAfter \cup {l.startedAfter}
                /\ IF ~reply.token \/ setItem = "localStorage throws"
                   THEN UNCHANGED <<localStorageToken, sessionStorageToken>>
                   ELSE /\ localStorageToken' = <<l.id>>
                        /\ sessionStorageToken' =
                               IF setItem = "stored" THEN <<l.id>> ELSE sessionStorageToken
    /\ UNCHANGED <<loginsStarted, logouts, lastRequest, requestsSent>>
    /\ UNCHANGED <<modalVars, mgmtVars, apiCall, validatorVars>>

logout ==
    /\ logouts < MaxLogouts
    /\ logouts' = logouts + 1
    /\ localStorageToken' = <<>>
    /\ sessionStorageToken' = <<>>
    /\ UNCHANGED <<logins, loginsStarted, loggedInAfter, lastLogin, lastRequest, requestsSent>>
    /\ UNCHANGED <<modalVars, mgmtVars, apiCall, validatorVars>>

\* fetchOrderStats / fetchRevenueStats up to the await of fetch: the request
\* carries Authorization: Bearer <token> when a token is stored
statsRequest ==
    /\ requestsSent < MaxRequests
    /\ \E op \in {"fetchOrderStats", "fetchRevenueStats"} :
        lastRequest' = <<[op |-> op, bearer |-> storedToken, loggedOut |-> LoggedOut]>>
    /\ requestsSent' = requestsSent + 1
    /\ UNCHANGED <<localStorageToken, sessionStorageToken, logins, loginsStarted, logouts,
                   loggedInAfter, lastLogin>>
    /\ UNCHANGED <<modalVars, mgmtVars, apiCall, validatorVars>>

NextAuth ==
    \/ login_start
    \/ login_settled
    \/ logout
    \/ statsRequest

SpecAuth == Init /\ [][NextAuth]_vars

\* ================================================================ claims

\* the three field validators, each applied to the current field value
FieldsRejected ==
    \/ nameErrorOf(customerName) # null
    \/ validateEmail(customerEmail) # null
    \/ validatePhoneNumber(phoneNumber) # null

\* C1: from the step in which placeOrder resolves until the confirmation is
\* dismissed, no step invokes clearCart or onClose, the cart keeps its
\* contents and the isOpen flag keeps its value.
C1_NothingClearedOrClosedWhileConfirmationShown ==
    [][showPopup' =>
          /\ "clearCart" \notin calls'
          /\ "onClose" \notin calls'
          /\ cart' = cart
          /\ isOpen' = isOpen
          /\ cleared' = cleared]_vars

\* the confirmation is up over an open form with the submitted cart intact
C1_Witness ==
    /\ showPopup
    /\ succeeded = 1
    /\ isOpen
    /\ Len(cart) = 1
    /\ cleared = 0

\* C2: every clearCart call is made by the acknowledgment close (the step
\* that takes the confirmation down) after a successful response; no other
\* step changes the cart the modal was given.
C2_ClearCartOnlyInAcknowledgment ==
    [][(cleared' # cleared \/ "clearCart" \in calls') =>
          /\ showPopup
          /\ ~showPopup'
          /\ succeeded >= 1]_vars

\* C3: a handleSubmit run on field values that a validator rejects issues no
\* placeOrder, leaves an error on every rejected field, raises the validation
\* toast and leaves isSubmitting false, whatever the cart holds.
C3_RejectedFieldsBlockSubmission ==
    [][(handleSubmit /\ FieldsRejected) =>
          /\ placed' = placed
          /\ inflight' = inflight
          /\ "placeOrder" \notin calls'
          /\ isSubmitting' = FALSE
          /\ toast'.title = "Validation Error"
          /\ (nameErrorOf(customerName) # null => nameError' # null)
          /\ (validateEmail(customerEmail) # null => emailError' # null)
          /\ (validatePhoneNumber(phoneNumber) # null => phoneError' # null)]_vars

\* a rejected submit with an empty cart: the validation toast, not "Empty Cart"
C3_Witness ==
    /\ toast.title = "Validation Error"
    /\ nameError = ErrNameRequired
    /\ Len(cart) = 0
    /\ placed = 0
    /\ ~isSubmitting

\* C4: a handleSubmit run with valid fields and an empty cart raises the
\* "Empty Cart" toast, issues no placeOrder, leaves isSubmitting false and
\* leaves the four form fields as they were.
C4_EmptyCartBlocksSubmission ==
    [][(handleSubmit /\ ~FieldsRejected /\ Len(cart) = 0) =>
          /\ toast'.title = "Empty Cart"
          /\ placed' = placed
          /\ inflight' = inflight
          /\ "placeOrder" \notin calls'
          /\ isSubmitting' = FALSE
          /\ UNCHANGED <<customerName, phoneNumber, customerEmail, generalInstructions>>]_vars

C4_Witness ==
    /\ toast.title = "Empty Cart"
    /\ customerName = <<"A", "l">>
    /\ Len(cart) = 0
    /\ placed = 0
    /\ ~isSubmitting

\* C8: the clearCart calls made so far are the successful submissions whose
\* confirmation has been dismissed: none while the confirmation of the latest
\* success is up, exactly one per success afterwards; and the step that makes
\* the call takes the confirmation down, empties the cart and calls onClose.
C8_OneClearCartPerSuccess ==
    /\ [](cleared = succeeded - (IF showPopup THEN 1 ELSE 0))
    /\ [][cleared' # cleared =>
             /\ cleared' = cleared + 1
             /\ showPopup
             /\ ~showPopup'
             /\ cart' = <<>>
             /\ ~isOpen'
             /\ calls' = {"clearCart", "onClose"}]_vars

\* two orders placed and acknowledged, two clearCart calls
C8_Witness ==
    /\ succeeded = 2
    /\ cleared = 2
    /\ ~showPopup
    /\ cart = <<>>

\* C9: while the confirmation of a resolved placeOrder is shown, the four
\* fields are empty, the three errors are null, and the rows the popup renders
\* hold the id (read back as a number) and the total of the Order returned.
C9_FormResetAndOrderShown ==
    showPopup =>
        /\ customerName = <<>>
        /\ phoneNumber = <<>>
        /\ customerEmail = <<>>
        /\ generalInstructions = <<>>
        /\ nameError = null
        /\ emailError = null
        /\ phoneError = null
        /\ lastOrder # nullData
        /\ orderIdShown # undefined
        /\ parseInt(orderIdShown) = lastOrder[1].id
        /\ totalAmountShown = lastOrder[1].totalAmount

\* the backend answered {id: 42, totalAmount: 150} and the popup shows it
C9_Witness ==
    /\ showPopup
    /\ lastOrder = <<[id |-> 42, totalAmount |-> 150]>>
    /\ orderIdShown = <<"4", "2">>
    /\ totalAmountShown = 150

\* C10: the step that handles a rejected placeOrder leaves the fields, the
\* errors, the cart and the isOpen flag as they were, shows no confirmation,
\* invokes no callback and raises the "Order Failed" toast.
C10_FailureLeavesFormAndCart ==
    [][(Len(inflight') < Len(inflight) /\ succeeded' = succeeded) =>
          /\ UNCHANGED formVars
          /\ cart' = cart
          /\ isOpen' = isOpen
          /\ showPopup' = FALSE
          /\ popupData' = nullData
          /\ calls' = {}
          /\ toast'.title = "Order Failed"]_vars

\* a failed submission with the form still filled in and open
C10_Witness ==
    /\ toast.title = "Order Failed"
    /\ customerName = <<"A", "l">>
    /\ generalInstructions = <<" ", "x">>
    /\ Len(cart) = 1
    /\ isOpen
    /\ ~showPopup
    /\ ~isSubmitting
    /\ inflight = <<>>

\* C11: isSubmitting turns true only in a step that passed validateForm and the
\* empty-cart check and started placeOrder; every step that settles a
\* placeOrder call (resolved or rejected) leaves it false; and it is never
\* true with no placeOrder call in flight.
C11_SubmittingFlagFollowsRequest ==
    /\ [](isSubmitting => Len(inflight) >= 1)
    /\ [][(~isSubmitting /\ isSubmitting') =>
             /\ validateForm
             /\ ~cartIsEmpty(cart)
             /\ calls' = {"placeOrder"}
             /\ Len(inflight') = Len(inflight) + 1]_vars
    /\ [][Len(inflight') < Len(inflight) => ~isSubmitting']_vars

\* a second submission is in flight after the first one was rejected and
\* cleared the flag
C11_Witness ==
    /\ isSubmitting
    /\ Len(inflight) = 1
    /\ placed = 2
    /\ succeeded = 0
    /\ toast.title = "Order Failed"

\* C12: a step of handleClose (the only step that calls onClose alone) leaves
\* every field empty and every field error null, starts no placeOrder call
\* and leaves the cart as it was.
C12_CloseResetsFormOnly ==
    [][calls' = {"onClose"} =>
          /\ customerName' = <<>>
          /\ phoneNumber' = <<>>
          /\ customerEmail' = <<>>
          /\ generalInstructions' = <<>>
          /\ nameError' = null
          /\ emailError' = null
          /\ phoneError' = null
          /\ inflight' = inflight
          /\ placed' = placed
          /\ cart' = cart
          /\ ~isOpen']_vars

\* the form was closed after a submit attempt failed validation: the errors
\* that attempt set are gone and the cart still holds its item
C12_Witness ==
    /\ calls = {"onClose"}
    /\ ~isOpen
    /\ toast.title = "Validation Error"
    /\ nameError = null
    /\ customerName = <<>>
    /\ Len(cart) = 1
    /\ placed = 0

\* C13: a step that starts a placeOrder call begins in a state with no name,
\* email or phone error and with every field passing its validator; and a
\* field error that is present goes away only in a step that leaves that
\* field with a value passing its validator, or that resets the form.
C13_FieldErrorBlocksSubmission ==
    /\ [][calls' = {"placeOrder"} =>
             /\ nameError = null /\ emailError = null /\ phoneError = null
             /\ nameErrorOf(customerName) = null
             /\ validateEmail(customerEmail) = null
             /\ validatePhoneNumber(phoneNumber) = null]_vars
    /\ [][(nameError # null /\ nameError' = null) =>
             (nameErrorOf(customerName') = null \/ customerName' = <<>>)]_vars
    /\ [][(emailError # null /\ emailError' = null) =>
             (customerEmail' # customerEmail /\ validateEmail(customerEmail') = null)]_vars
    /\ [][(phoneError # null /\ phoneError' = null) =>
             (phoneNumber' # phoneNumber /\ validatePhoneNumber(phoneNumber') = null)]_vars

\* a submit attempt failed on the empty name; the name was not touched since,
\* its error is still shown and the submit button is disabled
C13_Witness ==
    /\ DialogOpen
    /\ toast.title = "Validation Error"
    /\ customerName = <<>>
    /\ nameError = ErrNameRequired
    /\ emailError = null
    /\ phoneError = null
    /\ Len(cart) = 1
    /\ ~isSubmitting
    /\ ~SubmitEnabled

\* ------------------------------------------------------- order management

\* C5: the step in which handleStatusUpdate starts shows the target status of
\* the order before its request settles, and the step in which the handler's
\* reconciliation fetch has completed (after a resolved or a rejected update)
\* leaves the order, if listed, with the status the backend holds for it.
C5_DisplayedStatusIsBackendStatusAfterReconciliation ==
    [][/\ \A u \in BagToSet(updates') :
            (u.handler = "handleStatusUpdate" /\ CopiesIn(u, updates') > CopiesIn(u, updates))
                => orders'[u.orderId].orderStatus = u.status
       /\ \A h \in finished' :
            (h.handler = "handleStatusUpdate" /\ h.orderId \in DOMAIN orders')
                => orders'[h.orderId].orderStatus = serverOrders'[h.orderId].orderStatus]_vars

\* C6 (as stated): no step issues a status or a payment update request for an
\* order whose displayed status is delivered or cancelled.
C6_NoTransitionRequestForTerminalOrder ==
    [][\A k \in 1..Len(issued') :
          issued'[k].url \in {"PUT /orders/status", "PUT /orders/payment"}
              => orders[issued'[k].orderId].orderStatus \notin TerminalStatuses]_vars

\* C6 (amended): no step issues a status update request for an order whose
\* displayed status is delivered or cancelled, whether that status came from
\* the backend or was set optimistically; the payment buttons of such an
\* order stay enabled while it is not being updated.
C6_NoStatusRequestForTerminalOrder ==
    [][\A k \in 1..Len(issued') :
          issued'[k].url = "PUT /orders/status"
              => orders[issued'[k].orderId].orderStatus \notin TerminalStatuses]_vars

\* order 1 is displayed as delivered by an optimistic change the backend never
\* applied, its marker is cleared, the list is rendered and the user can still
\* click; its payment buttons are enabled
C6_Witness ==
    /\ ViewRendered
    /\ clicks < MaxClicks
    /\ 1 \in DOMAIN orders
    /\ orders[1].orderStatus = "delivered"
    /\ serverOrders[1].orderStatus = "pending"
    /\ ~isUpdating(1)
    /\ StatusButtonDisabled(1)
    /\ ~PaymentButtonDisabled(1)

\* C7: the step in which loadOrders(N), N > 1, receives a successful response
\* with zero orders sets currentPage to 1, issues a fetch for page 1 and
\* leaves the displayed list as it was.
C7_EmptyPageFallsBackToPageOne ==
    [][\A k \in 1..Len(received') :
          (/\ received'[k].response.ok
           /\ DOMAIN received'[k].response.orders = {}
           /\ received'[k].request.page > 1)
              => /\ currentPage' = 1
                 /\ \E j \in 1..Len(issued') :
                       issued'[j].url = "GET /orders" /\ issued'[j].page = 1
                 /\ orders' = orders]_vars

\* page 2 came back empty while a list was displayed: the list is still there
\* and the view is on page 1
C7_Witness ==
    /\ received # <<>>
    /\ received[1].response.ok
    /\ DOMAIN received[1].response.orders = {}
    /\ received[1].request.page = 2
    /\ DOMAIN orders # {}
    /\ currentPage = 1
    /\ Len(issued) >= 1

\* C14: an order listed with another status is listed as cancelled only by a
\* step that handles a successful list fetch, with the backend holding the
\* order as cancelled; no other step (a click, a failed call) makes it so.
C14_CancelledOnlyThroughRefetch ==
    [][\A o \in DOMAIN orders \cap DOMAIN orders' :
          (orders[o].orderStatus # "cancelled" /\ orders'[o].orderStatus = "cancelled")
              => /\ received' # <<>>
                 /\ received'[1].response.ok
                 /\ serverOrders'[o].orderStatus = "cancelled"]_vars

\* ------------------------------------------------------------ API clients

\* C15: a call of an API client that handled a 2xx response whose envelope has
\* success = false did not return normally, and threw the envelope's message
\* if the envelope had one.
C15_UnsuccessfulEnvelopeIsThrown ==
    apiCall # <<>> =>
        ((ok(apiCall[1].reply) /\ ~apiCall[1].reply.success) =>
            /\ ~apiCall[1].outcome.returns
            /\ (apiCall[1].reply.message # undefined
                    => apiCall[1].outcome.error = apiCall[1].reply.message))

\* C16: when the order-creation call rejects, the notification is the
\* refresh-your-cart message exactly when the backend's failure message
\* contains 'not available', and otherwise the server's message verbatim when
\* the server gave one; a transport failure (no response at all) is never
\* reported as items being unavailable.
C16_OnlyBackendUnavailabilityIsReportedAsUnavailable ==
    (apiCall # <<>> /\ apiCall[1].op = "handleSubmit" /\ ~apiCall[1].outcome.returns) =>
        LET reply == apiCall[1].reply
            serverMessage == IF reply.status = 0 THEN undefined ELSE reply.message
            shown == apiCall[1].toast.description
        IN  /\ shown = MsgRefreshCart
                <=> (serverMessage # undefined /\ includes(serverMessage, MsgNotAvailable))
            /\ (serverMessage # undefined /\ ~includes(serverMessage, MsgNotAvailable))
                => shown = serverMessage
            /\ reply.status = 0 => shown # MsgRefreshCart

\* C17: in every OrderSubmission handed to placeOrder, a blank optional field
\* (the order's instructions, an item's instructions) is left out rather than
\* sent as the empty string, and phone and email are never sent as the empty
\* string (they carry 'Not provided' when blank).
C17_BlankOptionalFieldsAreOmitted ==
    \A i \in 1..Len(inflight) :
        /\ inflight[i].specialInstructions # <<>>
        /\ \A k \in 1..Len(inflight[i].items) :
               inflight[i].items[k].specialInstructions # <<>>
        /\ inflight[i].customerPhone # <<>>
        /\ inflight[i].customerEmail # <<>>

\* ---------------------------------------------------------------- validators

\* C18: the phone validator reports no error exactly when the string is empty
\* or all whitespace, or holds between 10 and 15 digit characters; a non-blank
\* string with fewer than 10 digits gets the too-short error, one with more
\* than 15 the too-long error.
C18_PhoneValidIffBlankOrTenToFifteenDigits ==
    LET blank == \A i \in 1..Len(phoneArg) : IsSpace(phoneArg[i])
        d == DigitCount(phoneArg)
    IN  /\ phoneResult = null <=> (blank \/ d \in 10..15)
        /\ (~blank /\ d < 10) => phoneResult = ErrPhoneShort
        /\ (~blank /\ d > 15) => phoneResult = ErrPhoneLong

\* sixteen digits between two separators are rejected as too long
C18_Witness ==
    /\ DigitCount(phoneArg) = 16
    /\ Len(phoneArg) = 18
    /\ phoneResult = ErrPhoneLong

\* ---------------------------------------------------------------- authentication

\* C19: logout sends no request and empties both storages; from then until a
\* login started after that logout succeeds, no token is stored and no request
\* carries a bearer credential; a login that fails stores nothing.
C19_NoTokenAfterLogoutUntilNextLogin ==
    /\ [](LoggedOut => (localStorageToken = <<>> /\ sessionStorageToken = <<>>))
    /\ []((lastRequest # <<>> /\ lastRequest[1].loggedOut) => lastRequest[1].bearer = <<>>)
    /\ [][logouts' # logouts =>
            /\ requestsSent' = requestsSent
            /\ localStorageToken' = <<>>
            /\ sessionStorageToken' = <<>>]_vars
    /\ [][(lastLogin' # lastLogin /\ ~lastLogin'[1].returns) =>
            /\ localStorageToken' = localStorageToken
            /\ sessionStorageToken' = sessionStorageToken]_vars

\* ------------------------------------------- order management, reconciliation

\* C20: the step in which a status or payment update request settles, resolved
\* or rejected, issues exactly one list fetch, and that fetch is of the page
\* the view is on; the step in which the handler of a rejected update
\* finishes shows the failure notification.
C20_OneRefetchOfCurrentPageAfterEveryUpdate ==
    [][/\ \A u \in BagToSet(updates) :
            CopiesIn(u, updates') < CopiesIn(u, updates)
                => /\ Len(issued') = 1
                   /\ issued'[1].url = "GET /orders"
                   /\ issued'[1].page = currentPage
       /\ \A h \in finished' :
            h.outcome = "rejected" => "Update Failed" \in toasts']_vars

\* ------------------------------------------ order management, concurrency

\* C21: in the step in which a transition's handler finishes, the order's
\* updating marker is removed, the handler's reconciliation fetch has
\* succeeded, no page-1 fallback fetch it started is still in flight, and the
\* displayed list is the list that fetch returned.
C21_MarkerClearsOnServerData ==
    [][\A h \in finished' :
          /\ h.orderId \notin updatingOrders'
          /\ received'[1].response.ok
          /\ ~emptyPageFallback(received'[1].response, received'[1].request.page)
          /\ orders' = received'[1].response.orders]_vars

C23_EverySuccessfulFetchReplacesTheList ==
    [][(received' # <<>> /\ received'[1].response.ok)
          => orders' = received'[1].response.orders]_vars

\* C23 (amended): every step that handles a successful list response, other
\* than an empty page N > 1 (which falls back to page 1), leaves exactly that
\* response's list displayed, whatever else is in flight: the list is the
\* response of the last such completion and never a mixture.
C23_LastDisplayableFetchReplacesTheList ==
    [][(/\ received' # <<>>
        /\ received'[1].response.ok
        /\ ~(DOMAIN received'[1].response.orders = {} /\ received'[1].request.page > 1))
          => orders' = received'[1].response.orders]_vars

\* after two user actions nothing is in flight any more; the fetch that
\* completed last was a handler's reconciliation fetch, and the list displayed
\* is the one order of its response
C23_Witness ==
    /\ clicks = 2
    /\ updatingOrders = {}
    /\ fetches = EmptyBag
    /\ received # <<>>
    /\ received[1].request.awaiting # NoHandler
    /\ received[1].response.ok
    /\ DOMAIN orders = {1}
    /\ orders = received[1].response.orders

\* ---------------------------------------------------- order modal, concurrency

\* C24: when the form has been dismissed (isOpen false) with a placeOrder call
\* in flight, the step that handles its result still does its work: on
\* success the confirmation is shown with the id and total of the order and
\* the cart is untouched, on failure the "Order Failed" toast is raised and
\* the cart is untouched; and the cart is cleared only by the step that
\* acknowledges the confirmation.
C24_ResultHandledAfterDismissal ==
    /\ [][(~isOpen /\ Len(inflight') < Len(inflight)) =>
            /\ cart' = cart
            /\ cleared' = cleared
            /\ IF succeeded' # succeeded
               THEN /\ showPopup'
                    /\ popupData' = <<orderInfoOf(lastOrder'[1])>>
               ELSE toast'.title = "Order Failed"]_vars
    /\ [][cleared' # cleared => (showPopup /\ ~showPopup')]_vars

\* the form was dismissed during the request, and the confirmation is up over
\* the closed form with the cart still filled
C24_Witness ==
    /\ ~isOpen
    /\ showPopup
    /\ succeeded = 1
    /\ popupData = <<orderInfoOf(lastOrder[1])>>
    /\ Len(cart) = 1
    /\ cleared = 0

\* C25: a step that handles a successful list response, displays its list and
\* leaves no list fetch in flight and no debounce timer pending, handles a
\* fetch that was issued with the filter values now selected.
C25_IdleListIsForSelectedFilters ==
    [][(/\ received' # <<>>
        /\ received'[1].response.ok
        /\ orders' = received'[1].response.orders
        /\ fetches' = EmptyBag
        /\ timeoutId' = <<>>)
          => received'[1].request.filters = currentFilters']_vars

\* C26: for each order at most one update request is in flight, every order
\* with an update in flight is in the updating set, and no step issues a status
\* or payment update request for an order that is in the updating set.
C26_OneMutationPerOrder ==
    /\ [](\A o \in OrderIds :
            LET mutations == {u \in BagToSet(updates) : u.orderId = o}
            IN  /\ Cardinality(mutations) <= 1
                /\ \A u \in mutations : CopiesIn(u, updates) = 1 /\ o \in updatingOrders)
    /\ [][\A k \in 1..Len(issued') :
            issued'[k].url \in {"PUT /orders/status", "PUT /orders/payment"}
                => issued'[k].orderId \notin updatingOrders]_vars

\* a transition of order 2 was started while one of order 1 was in flight
C26_Witness ==
    /\ updatingOrders = {1, 2}
    /\ \E u1 \in BagToSet(updates) : u1.orderId = 1 /\ u1.handler = "handleStatusUpdate"
    /\ \E u2 \in BagToSet(updates) : u2.orderId = 2 /\ u2.handler = "handlePaymentUpdate"

\* C27: at most one placeOrder call is in flight, the submitting flag is true
\* while one is, and no step starts a placeOrder call while the flag is true.
C27_OneOrderRequestInFlight ==
    /\ [](Len(inflight) <= 1)
    /\ [](inflight # <<>> => isSubmitting)
    /\ [][Len(inflight') > Len(inflight) => ~isSubmitting]_vars

\* a second order is being placed, after the first request had completed, over
\* an open form
C27_Witness ==
    /\ placed = 2
    /\ Len(inflight) = 1
    /\ isSubmitting
    /\ DialogOpen

\* C28: in every state of the order modal a field error that is not null is
\* the error its validator gives for the field's current value; so a name,
\* email or phone number that passes its validator shows no error.
C28_ErrorsAreOfCurrentValues ==
    /\ nameError # null => nameError = nameErrorOf(customerName)
    /\ emailError # null => emailError = validateEmail(customerEmail)
    /\ phoneError # null => phoneError = validatePhoneNumber(phoneNumber)
    /\ nameErrorOf(customerName) = null => nameError = null
    /\ validateEmail(customerEmail) = null => emailError = null
    /\ validatePhoneNumber(phoneNumber) = null => phoneError = null

\* after an order was placed, a submit of an empty name has set the name
\* error, and an invalid email was then corrected while the name error stays
C28_Witness ==
    /\ placed >= 1
    /\ nameError # null
    /\ customerEmail # <<>>
    /\ emailError = null
    /\ phoneError # null

\* C29: the loading flag is true exactly when at least one list fetch is in
\* flight, so the transition and pagination controls, which are rendered only
\* when loading is false, are never usable during a fetch.
C29_LoadingIffFetchInFlight ==
    loading <=> fetches # EmptyBag

\* The backend answers every request: the answer to a fetch of page p that is
\* in flight is eventually handled; so is the answer to an update request, and
\* a pending debounce timer eventually fires.
loadOrders_settledFor(p) ==
    loadOrders_settled /\ received'[1].request.page = p

SpecMgmtFair ==
    /\ SpecMgmt
    /\ \A p \in 1..MaxPages : WF_vars(loadOrders_settledFor(p))
    /\ WF_vars(handleStatusUpdate_then \/ handleStatusUpdate_catch)
    /\ WF_vars(handlePaymentUpdate_then \/ handlePaymentUpdate_catch)
    /\ WF_vars(debounceFires)

\* no list fetch, update request or timer is pending and loading is false
Idle ==
    /\ fetches = EmptyBag
    /\ updates = EmptyBag
    /\ timeoutId = <<>>
    /\ ~loading

\* C30: when the backend answers every request, echoing the page asked for,
\* the view eventually becomes idle with loading = false and stays so once the
\* user actions have ended; the page-1 fallback fetch is issued only by a load
\* of a page N > 1.
C30_EventuallyIdle ==
    /\ <>[]Idle
    /\ [][\A k \in 1..Len(issued') :
            (loadOrders_settled /\ received' # <<>> /\ received'[1].request.page = 1)
                => issued'[k].page = currentPage']_vars

====
